---- MODULE Spec2Model ----
(***************************************************************************)
(* Feedstock-matching engine of src/analyzers/biochar_recommender.py.      *)
(*                                                                         *)
(* Numbers are fixed-point with one decimal (2.0 is 20, 4.5 is 45).  A     *)
(* numeric cell is <<v>> when present and <<>> (NaN) when absent.  A       *)
(* DataFrame is a record [isNone, columns, rows]; a row is a function from *)
(* column names to cells.  A formatted reason string is the sequence of    *)
(* the string pieces the f-string concatenates.                            *)
(***************************************************************************)
EXTENDS Integers, Sequences, FiniteSets, TLC

VARIABLES primary_df, fallback_df, hex_df, challenges, ret, files

vars == <<primary_df, fallback_df, hex_df, challenges, ret, files>>

\* ---------------------------------------------------------------- bounds
MaxRows == 2

MaxBatch == 2

\* ------------------------------------------------------------- cells etc.
NaN == <<>>

notna(c) == c # NaN

Range(s) == {s[i] : i \in 1..Len(s)}

SeqsUpTo(S, n) == UNION {[1..k -> S] : k \in 0..n}

\* ------------------------------------------------------ program constants
MAIN_CROP_FEEDSTOCKS ==
    <<"Coffee Silverskin", "Spent Coffee Ground", "Corn Straw", "Corn cob",
      "Rice Husk", "Soybean Straw">>

LowOC_soc == 20

HighPH_ph == 80

LowPH_ph == 45

HighTemp_temp == 300

LowMoisture_moisture == 300

DefaultMoisture == 500

DefaultTemperature == 200

CHALLENGE_COLUMNS ==
    {"Challenge_Low_OC", "Challenge_High_pH", "Challenge_Low_pH",
     "Challenge_High_Temperature", "Challenge_Low_Moisture"}

\* f'Challenge_{challenge.replace(" ", "_")}'
col_name(challenge) ==
    CASE challenge = "Low OC" -> "Challenge_Low_OC"
      [] challenge = "High pH" -> "Challenge_High_pH"
      [] challenge = "Low pH" -> "Challenge_Low_pH"
      [] challenge = "High Temperature" -> "Challenge_High_Temperature"
      [] challenge = "Low Moisture" -> "Challenge_Low_Moisture"

\* ------------------------------------------------- identify_soil_challenges
\* the checks taken in the order of the parameters: moisture before temperature
identify_soil_challenges_parameter_order(soc, ph, moisture, temperature) ==
    (IF notna(soc) /\ soc[1] < LowOC_soc THEN <<"Low OC">> ELSE <<>>)
    \o (IF notna(ph)
        THEN IF ph[1] > HighPH_ph THEN <<"High pH">>
             ELSE IF ph[1] < LowPH_ph THEN <<"Low pH">> ELSE <<>>
        ELSE <<>>)
    \o (IF notna(moisture) /\ moisture[1] < LowMoisture_moisture
        THEN <<"Low Moisture">> ELSE <<>>)
    \o (IF notna(temperature) /\ temperature[1] > HighTemp_temp
        THEN <<"High Temperature">> ELSE <<>>)

identify_soil_challenges(soc, ph, moisture, temperature) ==
    (IF notna(soc) /\ soc[1] < LowOC_soc THEN <<"Low OC">> ELSE <<>>)
    \o (IF notna(ph)
        THEN IF ph[1] > HighPH_ph THEN <<"High pH">>
             ELSE IF ph[1] < LowPH_ph THEN <<"Low pH">> ELSE <<>>
        ELSE <<>>)
    \o (IF notna(temperature) /\ temperature[1] > HighTemp_temp
        THEN <<"High Temperature">> ELSE <<>>)
    \o (IF notna(moisture) /\ moisture[1] < LowMoisture_moisture
        THEN <<"Low Moisture">> ELSE <<>>)

\* ', '.join(challenges), as the pieces it concatenates
RECURSIVE join(_)
join(chs) ==
    IF Len(chs) = 0 THEN <<>>
    ELSE IF Len(chs) = 1 THEN <<chs[1]>>
    ELSE <<chs[1], ", ">> \o join(Tail(chs))

\* str(n) for the small counts that occur
str(n) ==
    CASE n = 0 -> "0" [] n = 1 -> "1" [] n = 2 -> "2" [] n = 3 -> "3"
      [] n = 4 -> "4" [] n = 5 -> "5"

\* --------------------------------------------------------------- results
None == "<None>"

NoCall == [kind |-> "none"]

Raise(e) == [kind |-> "raise", exc |-> e]

\* control falls through to the next step of the chain
Continue == [kind |-> "continue"]

Tuple(feedstock, reason, data_source, data_quality) ==
    [kind |-> "tuple", feedstock |-> feedstock, reason |-> reason,
     data_source |-> data_source, data_quality |-> data_quality]

\* ------------------------------------------------------------ DataFrames
NoneDF == [isNone |-> TRUE, columns |-> {}, rows |-> <<>>]

DataFrame(columns, rows) == [isNone |-> FALSE, columns |-> columns, rows |-> rows]

len(df) == Len(df.rows)

\* ------------------------------------------------------------- scoring
\* primary_df[col_name].astype(int) raises on a NaN cell
astype_int_raises(df, col) == \E i \in 1..len(df) : df.rows[i][col] = NaN

\* scores += primary_df[col_name].astype(int), for each challenge whose
\* column the dataset has
RECURSIVE row_score(_, _, _)
row_score(chs, df, i) ==
    IF Len(chs) = 0 THEN 0
    ELSE (IF col_name(chs[1]) \in df.columns /\ notna(df.rows[i][col_name(chs[1])])
          THEN df.rows[i][col_name(chs[1])][1] ELSE 0)
         + row_score(Tail(chs), df, i)

scores(chs, df) == [i \in 1..len(df) |-> row_score(chs, df, i)]

scores_raises(chs, df) ==
    \E k \in 1..Len(chs) :
        col_name(chs[k]) \in df.columns /\ astype_int_raises(df, col_name(chs[k]))

\* the mask without the main-crop filter
main_mask_all(df) == 1..len(df)

\* primary_df['Type'].isin(main_feedstocks), as the set of row positions
main_mask(df) == {i \in 1..len(df) : df.rows[i]["Type"] \in Range(MAIN_CROP_FEEDSTOCKS)}

\* Series.min() in place of Series.max()
series_min(sc, idx) == CHOOSE m \in {sc[i] : i \in idx} : \A i \in idx : m <= sc[i]

\* Series.max() over the rows of idx
series_max(sc, idx) == CHOOSE m \in {sc[i] : i \in idx} : \A i \in idx : sc[i] <= m

\* the last row holding the maximum
idxmax_last(sc, idx) ==
    LET m == series_max(sc, idx)
    IN  CHOOSE i \in idx : sc[i] = m /\ \A j \in idx : sc[j] = m => j <= i

\* Series.idxmax(): the first row holding the maximum
idxmax(sc, idx) ==
    LET m == series_max(sc, idx)
    IN  CHOOSE i \in idx : sc[i] = m /\ \A j \in idx : sc[j] = m => i <= j

addresses(match_count, chs) ==
    <<"Addresses ", str(match_count), "/", str(Len(chs)), " soil challenges: ">>
    \o join(chs)

\* ---------------------------------------------- find_matching_feedstocks
\* lines 176-184: the fallback dataset, then the no-data default
find_matching_fallback(chs, fallback) ==
    IF ~fallback.isNone /\ len(fallback) > 0
    THEN Tuple("See pyrolysis data",
               <<"Soil challenges identified: ">> \o join(chs)
               \o <<". Using fallback dataset (limited challenge matching available).">>,
               "experimental_data", "high")
    ELSE Tuple(None,
               <<"Soil challenges identified: ">> \o join(chs)
               \o <<". Pyrolysis data not available for recommendations.">>,
               "general_default", "low")

\* lines 141-174: the primary dataset; Continue when it yields no feedstock
find_matching_primary(chs, primary) ==
    IF ~primary.isNone /\ len(primary) > 0
    THEN IF scores_raises(chs, primary) THEN Raise("ValueError")
         ELSE IF "Type" \notin primary.columns THEN Raise("KeyError")
         ELSE LET sc == scores(chs, primary)
                  mm == main_mask(primary)
                  all == 1..len(primary)
              IN  IF mm # {} /\ series_max(sc, mm) > 0
                  THEN Tuple(primary.rows[idxmax(sc, mm)]["Type"],
                             addresses(series_max(sc, mm), chs),
                             "experimental_data", "high")
                  ELSE IF series_max(sc, all) > 0
                  THEN Tuple(primary.rows[idxmax(sc, all)]["Type"],
                             addresses(series_max(sc, all), chs)
                             \o <<" (fallback feedstock)">>,
                             "experimental_data", "high")
                  ELSE Continue
    ELSE Continue

\* the chain with the fallback dataset tried before the primary one
find_matching_feedstocks_fallback_first(chs, primary, fallback) ==
    IF Len(chs) = 0
    THEN Tuple(None, <<"No soil challenges identified - soil is in good condition">>,
               "general_default", "low")
    ELSE IF ~fallback.isNone /\ len(fallback) > 0
    THEN find_matching_fallback(chs, fallback)
    ELSE LET r == find_matching_primary(chs, primary)
         IN  IF r # Continue THEN r ELSE find_matching_fallback(chs, fallback)

find_matching_feedstocks(chs, primary, fallback) ==
    IF Len(chs) = 0
    THEN Tuple(None, <<"No soil challenges identified - soil is in good condition">>,
               "general_default", "low")
    ELSE LET r == find_matching_primary(chs, primary)
         IN  IF r # Continue THEN r ELSE find_matching_fallback(chs, fallback)

\* ------------------------------------------------------- recommend_biochar
\* 'sub' in c.lower(), for the column names that occur
Substrings ==
    [c \in {"mean_soc", "mean_ph", "mean_moisture", "mean_temperature",
            "Recommended_Feedstock", "Recommendation_Reason", "Data_Source",
            "Data_Quality"} |->
        CASE c = "mean_soc" -> {"soc", "mean"}
          [] c = "mean_ph" -> {"ph", "mean"}
          [] c = "mean_moisture" -> {"moisture", "mean"}
          [] c = "mean_temperature" -> {"temp", "temperature", "mean"}
          [] OTHER -> {}]

contains(c, sub) == sub \in Substrings[c]

\* next((c for c in columns if c in matching), None)
next_col(columns, matching) ==
    IF \E i \in 1..Len(columns) : columns[i] \in matching
    THEN columns[CHOOSE i \in 1..Len(columns) :
                    /\ columns[i] \in matching
                    /\ \A j \in 1..(i - 1) : columns[j] \notin matching]
    ELSE None

or(a, b) == IF a # None THEN a ELSE b

soc_col(columns) ==
    or(next_col(columns, {c \in Range(columns) : contains(c, "soc") /\ contains(c, "mean")}),
       next_col(columns, {c \in Range(columns) : contains(c, "soc")}))

ph_col(columns) ==
    or(next_col(columns, {c \in Range(columns) : contains(c, "ph") /\ contains(c, "mean")}),
       next_col(columns, {c \in Range(columns) : contains(c, "ph")}))

moisture_col(columns) ==
    or(next_col(columns, {c \in Range(columns) :
                             contains(c, "moisture") /\ contains(c, "mean")}),
       next_col(columns, {c \in Range(columns) :
                             contains(c, "moisture") \/ contains(c, "sm_surface")}))

temp_col(columns) ==
    or(next_col(columns, {c \in Range(columns) :
                             (contains(c, "temp") \/ contains(c, "temperature"))
                             /\ contains(c, "mean")}),
       next_col(columns, {c \in Range(columns) :
                             contains(c, "temp") \/ contains(c, "temperature")}))

\* hex_df[name] = values: a new column is appended, an existing one replaced
set_column(df, name, values) ==
    [columns |-> IF name \in Range(df.columns) THEN df.columns
                 ELSE Append(df.columns, name),
     rows |-> [i \in 1..Len(df.rows) |->
                 [c \in (DOMAIN df.rows[i]) \cup {name} |->
                     IF c = name THEN values[i] ELSE df.rows[i][c]]]]

\* hex_df[name] = scalar
set_column_scalar(df, name, value) ==
    set_column(df, name, [i \in 1..Len(df.rows) |-> value])

\* the NaN cells of a column filled with 0 whatever the default
column_values_fillna_zero(df, col, fill) ==
    [i \in 1..Len(df.rows) |->
        IF col = None THEN fill
        ELSE IF df.rows[i][col] = NaN THEN <<0>> ELSE df.rows[i][col]]

\* lines 245-248: a column's values, NaN filled with the default if one is given
column_values(df, col, fill) ==
    [i \in 1..Len(df.rows) |->
        IF col = None THEN fill
        ELSE IF df.rows[i][col] = NaN THEN fill ELSE df.rows[i][col]]

\* (values <= threshold).fillna(False): the comparison made inclusive
le(values, threshold) == [i \in DOMAIN values |-> notna(values[i]) /\ values[i][1] <= threshold]

\* (values < threshold).fillna(False) and (values > threshold).fillna(False)
lt(values, threshold) == [i \in DOMAIN values |-> notna(values[i]) /\ values[i][1] < threshold]

gt(values, threshold) == [i \in DOMAIN values |-> notna(values[i]) /\ values[i][1] > threshold]

\* lines 245-271
challenge_lists(df) ==
    LET soc_values == column_values(df, soc_col(df.columns), NaN)
        ph_values == column_values(df, ph_col(df.columns), NaN)
        moisture_values == column_values(df, moisture_col(df.columns), <<DefaultMoisture>>)
        temp_values == column_values(df, temp_col(df.columns), <<DefaultTemperature>>)
        has_low_oc == lt(soc_values, LowOC_soc)
        has_high_ph == gt(ph_values, HighPH_ph)
        has_low_ph == lt(ph_values, LowPH_ph)
        has_high_temp == gt(temp_values, HighTemp_temp)
        has_low_moisture == lt(moisture_values, LowMoisture_moisture)
    IN  [i \in 1..Len(df.rows) |->
            (IF has_low_oc[i] THEN <<"Low OC">> ELSE <<>>)
            \o (IF has_high_ph[i] THEN <<"High pH">> ELSE <<>>)
            \o (IF has_low_ph[i] THEN <<"Low pH">> ELSE <<>>)
            \o (IF has_high_temp[i] THEN <<"High Temperature">> ELSE <<>>)
            \o (IF has_low_moisture[i] THEN <<"Low Moisture">> ELSE <<>>)]

\* challenge_col_map.get(challenge)
challenge_col_map(challenge) ==
    CASE challenge = "Low OC" -> "Challenge_Low_OC"
      [] challenge = "High pH" -> "Challenge_High_pH"
      [] challenge = "Low pH" -> "Challenge_Low_pH"
      [] challenge = "High Temperature" -> "Challenge_High_Temperature"
      [] challenge = "Low Moisture" -> "Challenge_Low_Moisture"
      [] OTHER -> None

RECURSIVE batch_row_score(_, _, _)
batch_row_score(chs, df, i) ==
    IF Len(chs) = 0 THEN 0
    ELSE (IF challenge_col_map(chs[1]) \in df.columns
             /\ notna(df.rows[i][challenge_col_map(chs[1])])
          THEN df.rows[i][challenge_col_map(chs[1])][1] ELSE 0)
         + batch_row_score(Tail(chs), df, i)

batch_scores(chs, df) == [i \in 1..len(df) |-> batch_row_score(chs, df, i)]

batch_scores_raises(chs, df) ==
    \E k \in 1..Len(chs) :
        challenge_col_map(chs[k]) \in df.columns
        /\ astype_int_raises(df, challenge_col_map(chs[k]))

no_challenges_row ==
    Tuple("No recommendation",
          <<"No soil challenges identified - soil is in good condition">>,
          "general_default", "low")

\* lines 344-358 and 381-395: the first main-crop row of the fallback
\* dataset, else its first row
fallback_feedstock(fallback) ==
    IF main_mask(fallback) # {}
    THEN fallback.rows[CHOOSE i \in main_mask(fallback) :
                           \A j \in main_mask(fallback) : i <= j]["Type"]
    ELSE fallback.rows[1]["Type"]

\* the step with the fallback dataset forgotten
row_after_primary_no_fallback(chs, fallback) ==
    Tuple("No recommendation",
          <<"Soil challenges identified: ">> \o join(chs)
          \o <<". No matching feedstock found.">>,
          "general_default", "low")

\* lines 341-364: after every primary row scored zero
row_after_primary(chs, fallback) ==
    IF ~fallback.isNone /\ len(fallback) > 0
    THEN IF "Type" \notin fallback.columns THEN Raise("KeyError")
         ELSE Tuple(fallback_feedstock(fallback),
                    <<"Soil challenges identified: ">> \o join(chs)
                    \o <<". Using fallback dataset feedstock (limited challenge matching).">>,
                    "experimental_data", "high")
    ELSE Tuple("No recommendation",
               <<"Soil challenges identified: ">> \o join(chs)
               \o <<". No matching feedstock found.">>,
               "general_default", "low")

\* the primary dataset scored without the main-crop step
row_primary_best_overall(chs, primary) ==
    IF batch_scores_raises(chs, primary) THEN Raise("ValueError")
    ELSE IF "Type" \notin primary.columns THEN Raise("KeyError")
    ELSE LET sc == batch_scores(chs, primary)
             all == 1..len(primary)
         IN  IF series_max(sc, all) > 0
             THEN Tuple(primary.rows[idxmax(sc, all)]["Type"],
                        addresses(series_max(sc, all), chs) \o <<" (fallback feedstock)">>,
                        "experimental_data", "high")
             ELSE Continue

\* lines 307-338: the primary dataset scored for one row; Continue when
\* every row scores zero
row_primary(chs, primary) ==
    IF batch_scores_raises(chs, primary) THEN Raise("ValueError")
    ELSE IF "Type" \notin primary.columns THEN Raise("KeyError")
    ELSE LET sc == batch_scores(chs, primary)
             mm == main_mask(primary)
             all == 1..len(primary)
         IN  IF mm # {} /\ series_max(sc, mm) > 0
             THEN Tuple(primary.rows[idxmax(sc, mm)]["Type"],
                        addresses(series_max(sc, mm), chs),
                        "experimental_data", "high")
             ELSE IF series_max(sc, all) > 0
             THEN Tuple(primary.rows[idxmax(sc, all)]["Type"],
                        addresses(series_max(sc, all), chs) \o <<" (fallback feedstock)">>,
                        "experimental_data", "high")
             ELSE Continue

\* lines 299-364: one row when the primary dataset is present and non-empty
row_with_primary(chs, primary, fallback) ==
    IF Len(chs) = 0 THEN no_challenges_row
    ELSE LET r == row_primary(chs, primary)
         IN  IF r # Continue THEN r ELSE row_after_primary(chs, fallback)

\* lines 367-400: one row when the primary dataset is absent or empty
row_without_primary(chs, fallback) ==
    IF Len(chs) = 0 THEN no_challenges_row
    ELSE IF ~fallback.isNone /\ len(fallback) > 0
    THEN IF "Type" \notin fallback.columns THEN Raise("KeyError")
         ELSE Tuple(fallback_feedstock(fallback),
                    <<"Soil challenges identified: ">> \o join(chs)
                    \o <<". Using fallback dataset feedstock (limited challenge matching available).">>,
                    "experimental_data", "high")
    ELSE Tuple("See pyrolysis data",
               <<"Soil challenges identified: ">> \o join(chs)
               \o <<". Pyrolysis data not available for recommendations.">>,
               "general_default", "low")

\* lines 282-400: the loop over challenge_lists, one result appended per row
RECURSIVE row_results(_, _, _)
row_results(lists, primary, fallback) ==
    IF Len(lists) = 0 THEN <<>>
    ELSE <<IF ~primary.isNone /\ len(primary) > 0
           THEN row_with_primary(Head(lists), primary, fallback)
           ELSE row_without_primary(Head(lists), fallback)>>
         \o row_results(Tail(lists), primary, fallback)

RECURSIVE drop_duplicates(_, _)
drop_duplicates(rows, seen) ==
    IF Len(rows) = 0 THEN <<>>
    ELSE IF Head(rows) \in seen THEN drop_duplicates(Tail(rows), seen)
    ELSE <<Head(rows)>> \o drop_duplicates(Tail(rows), seen \cup {Head(rows)})

\* the copy made with hex_df.drop_duplicates()
copy_drop_duplicates(df) == [columns |-> df.columns, rows |-> drop_duplicates(df.rows, {})]

\* hex_df.copy()
copy(df) == [columns |-> df.columns, rows |-> df.rows]

Table(df) == [kind |-> "table", columns |-> df.columns, rows |-> df.rows]

\* recommend_biochar(hex_df): the returned value and the caller's table
\* after the call
recommend_biochar(df, primary, fallback) ==
    IF primary.isNone /\ fallback.isNone
    THEN LET d == set_column_scalar(
                      set_column_scalar(df, "Recommended_Feedstock", "Data unavailable"),
                      "Recommendation_Reason", <<"Pyrolysis datasets not found">>)
         IN  [ret |-> Table(d), hex_df |-> d]
    ELSE IF soc_col(df.columns) = None \/ ph_col(df.columns) = None
    THEN LET d == set_column_scalar(
                      set_column_scalar(df, "Recommended_Feedstock", "Insufficient data"),
                      "Recommendation_Reason",
                      <<"Missing SOC or pH data for challenge identification">>)
         IN  [ret |-> Table(d), hex_df |-> d]
    ELSE LET c == copy(df)
             res == row_results(challenge_lists(c), primary, fallback)
             raising == {i \in 1..Len(res) : res[i].kind = "raise"}
             col(f) == [i \in 1..Len(res) |-> res[i][f]]
         IN  IF raising # {}
             THEN [ret |-> res[CHOOSE i \in raising : \A j \in raising : i <= j],
                   hex_df |-> df]
             ELSE IF Len(res) # Len(c.rows)
             THEN [ret |-> Raise("ValueError"), hex_df |-> df]
             ELSE [ret |-> Table(
                      set_column(set_column(set_column(set_column(c,
                          "Recommended_Feedstock", col("feedstock")),
                          "Recommendation_Reason", col("reason")),
                          "Data_Source", col("data_source")),
                          "Data_Quality", col("data_quality"))),
                   hex_df |-> df]

\* ------------------------------------------------------------ input sets
TypeNames == {"Rice Husk", "Corn Straw", "Wood Chips", "Bamboo"}

\* the challenge columns a reference row marks true
Profiles == {{"Challenge_Low_OC"}, {"Challenge_Low_OC", "Challenge_High_pH"}}

PrimaryColumns == {"Type"} \cup CHALLENGE_COLUMNS

PrimaryRow(type, profile) ==
    [c \in PrimaryColumns |->
        IF c = "Type" THEN type ELSE IF c \in profile THEN <<1>> ELSE <<0>>]

PrimaryRows == {PrimaryRow(t, p) : t \in TypeNames, p \in Profiles}

FallbackTypeNames == {"Rice Husk", "Corn Straw", "Wood Chips"}

FallbackRows == {[c \in {"Type"} |-> t] : t \in FallbackTypeNames}

\* a dataset as loaded, and the same dataset with a NaN in its first row's
\* Low OC cell or without its Type column
WithNaN(df) ==
    DataFrame(df.columns,
              [i \in 1..len(df) |->
                  IF i = 1 THEN [df.rows[i] EXCEPT !["Challenge_Low_OC"] = NaN]
                  ELSE df.rows[i]])

WithoutType(df) ==
    DataFrame(df.columns \ {"Type"},
              [i \in 1..len(df) |-> [c \in (DOMAIN df.rows[i]) \ {"Type"} |-> df.rows[i][c]]])

WellFormedPrimary == {DataFrame(PrimaryColumns, r) : r \in SeqsUpTo(PrimaryRows, MaxRows)}

WellFormedFallback == {DataFrame({"Type"}, r) : r \in SeqsUpTo(FallbackRows, MaxRows)}

Small(S) == {df \in S : len(df) <= 1}

FewPrimary ==
    {NoneDF} \cup Small(WellFormedPrimary)
    \cup {WithNaN(df) : df \in {d \in Small(WellFormedPrimary) : len(d) = 1}}
    \cup {WithoutType(df) : df \in {d \in Small(WellFormedPrimary) : len(d) = 1}}

FewFallback ==
    {NoneDF, DataFrame({"Type"}, <<>>),
     DataFrame({"Type"}, <<[Type |-> "Wood Chips"]>>),
     WithoutType(DataFrame({"Type"}, <<[Type |-> "Rice Husk"]>>))}

\* every primary dataset with a few fallback datasets, and every fallback
\* dataset with a few primary datasets
DatasetPairs ==
    ((WellFormedPrimary \cup FewPrimary) \X FewFallback)
    \cup (FewPrimary \X (WellFormedFallback \cup FewFallback))

MeasurementColumns == <<"mean_soc", "mean_ph", "mean_moisture", "mean_temperature">>

ColumnChoices ==
    {MeasurementColumns, <<"mean_ph", "mean_moisture", "mean_temperature">>}

\* soil samples: no challenge; Low OC and High pH; High pH alone
Samples ==
    {[mean_soc |-> <<30>>, mean_ph |-> <<70>>, mean_moisture |-> <<500>>,
      mean_temperature |-> <<250>>],
     [mean_soc |-> <<15>>, mean_ph |-> <<90>>, mean_moisture |-> <<500>>,
      mean_temperature |-> NaN],
     [mean_soc |-> <<30>>, mean_ph |-> <<90>>, mean_moisture |-> <<500>>,
      mean_temperature |-> NaN]}

ChallengeInputs == {<<>>, <<"Low OC">>, <<"Low OC", "High pH">>, <<"High pH">>}

\* ------------------------------------------------------------ the system
\* the recommender reads no file: the two dataset files are outside its state
NoFiles == <<>>

Init ==
    /\ \E pair \in DatasetPairs : primary_df = pair[1] /\ fallback_df = pair[2]
    /\ \E cols \in ColumnChoices : hex_df = [columns |-> cols, rows |-> <<>>]
    /\ challenges = <<>>
    /\ ret = NoCall
    /\ files = NoFiles

\* the caller adds a sample to the batch
AddRow(s) ==
    /\ ret = NoCall
    /\ Len(hex_df.rows) < MaxBatch
    /\ hex_df' = [hex_df EXCEPT !.rows =
                     Append(@, [c \in Range(hex_df.columns) |-> s[c]])]
    /\ UNCHANGED <<primary_df, fallback_df, challenges, ret, files>>

RecommendBiochar ==
    /\ ret = NoCall
    /\ LET r == recommend_biochar(hex_df, primary_df, fallback_df)
       IN  /\ ret' = r.ret
           /\ hex_df' = r.hex_df
    /\ UNCHANGED <<primary_df, fallback_df, challenges, files>>

FindMatchingFeedstocks(chs) ==
    /\ ret = NoCall
    /\ hex_df.rows = <<>>
    /\ challenges' = chs
    /\ ret' = find_matching_feedstocks(chs, primary_df, fallback_df)
    /\ UNCHANGED <<primary_df, fallback_df, hex_df, files>>

Next ==
    \/ \E s \in Samples : AddRow(s)
    \/ RecommendBiochar
    \/ \E chs \in ChallengeInputs : FindMatchingFeedstocks(chs)

Spec == Init /\ [][Next]_vars

\* ------------------------------------------------------ claim vocabulary
RecommendationColumns ==
    {"Recommended_Feedstock", "Recommendation_Reason", "Data_Source", "Data_Quality"}

\* recommend_biochar found the SOC and pH columns of the caller's table
ColumnsFound == soc_col(hex_df.columns) # None /\ ph_col(hex_df.columns) # None

\* the challenge set of each row of the batch
Lists == challenge_lists(hex_df)

\* row i of the returned table carries this recommendation
RowIs(i, feedstock, data_source, data_quality) ==
    /\ RecommendationColumns \subseteq DOMAIN ret.rows[i]
    /\ ret.rows[i]["Recommended_Feedstock"] = feedstock
    /\ ret.rows[i]["Data_Source"] = data_source
    /\ ret.rows[i]["Data_Quality"] = data_quality

\* C1: a sample whose challenge set is empty receives "No recommendation",
\* general_default, low, from find_matching_feedstocks and in every row of
\* recommend_biochar, whatever the reference datasets are.
C1_EmptyChallengeSet ==
    /\ (ret.kind = "tuple" /\ challenges = <<>>)
        => /\ ret.feedstock = "No recommendation"
           /\ ret.data_source = "general_default"
           /\ ret.data_quality = "low"
    /\ (ret.kind = "table" /\ ColumnsFound)
        => \A i \in 1..Len(ret.rows) :
              Lists[i] = <<>> => RowIs(i, "No recommendation", "general_default", "low")

\* C2: on every return path of recommend_biochar the returned table has the
\* four recommendation columns, each populated on every row.
C2_FourColumns ==
    ret.kind = "table"
    => /\ RecommendationColumns \subseteq Range(ret.columns)
       /\ \A i \in 1..Len(ret.rows) :
             /\ RecommendationColumns \subseteq DOMAIN ret.rows[i]
             /\ \A c \in RecommendationColumns :
                   ret.rows[i][c] # None /\ ret.rows[i][c] # NaN

\* C3: recommend_biochar returns one row per input row, in input order, each
\* carrying the cells of the input row at the same position.
C3_RowsPreserved ==
    [][(ret = NoCall /\ ret'.kind = "table")
       => /\ Len(ret'.rows) = Len(hex_df.rows)
          /\ \A i \in 1..Len(hex_df.rows) :
                /\ DOMAIN hex_df.rows[i] \subseteq DOMAIN ret'.rows[i]
                /\ \A c \in DOMAIN hex_df.rows[i] : ret'.rows[i][c] = hex_df.rows[i][c]]_vars

\* two different samples went through the scoring path and came back
C3_Witness ==
    /\ ret.kind = "table"
    /\ ColumnsFound
    /\ ~primary_df.isNone /\ len(primary_df) > 0
    /\ Len(ret.rows) >= 2
    /\ ret.rows[1]["mean_soc"] # ret.rows[2]["mean_soc"]
    /\ ret.rows[1]["Recommended_Feedstock"] # ret.rows[2]["Recommended_Feedstock"]

\* recommend_biochar took the scoring path (datasets loaded, columns found)
Normal ==
    /\ ret.kind = "table"
    /\ ColumnsFound
    /\ ~(primary_df.isNone /\ fallback_df.isNone)

Present(df) == ~df.isNone /\ len(df) > 0

HasType(df) == ~df.isNone /\ "Type" \in df.columns

TypesOf(df) == {df.rows[i]["Type"] : i \in 1..len(df)}

Main == Range(MAIN_CROP_FEEDSTOCKS)

\* the rows of the primary dataset whose Type is in the main-crop allowlist
MainRows == {i \in 1..len(primary_df) : primary_df.rows[i]["Type"] \in Main}

AllRows == 1..len(primary_df)

\* the matches the last call made: the challenge set matched, the scores it
\* gave the primary rows and the recommendation that came back
Matches ==
    (IF ret.kind = "tuple"
     THEN {[by |-> "find_matching_feedstocks", chs |-> challenges,
            sc |-> scores(challenges, primary_df), res |-> ret]}
     ELSE {})
    \cup
    (IF Normal
     THEN LET lists == Lists
          IN  {[by |-> "recommend_biochar", chs |-> lists[i],
                sc |-> batch_scores(lists[i], primary_df),
                res |-> Tuple(ret.rows[i]["Recommended_Feedstock"],
                              ret.rows[i]["Recommendation_Reason"],
                              ret.rows[i]["Data_Source"],
                              ret.rows[i]["Data_Quality"])] : i \in 1..Len(ret.rows)}
     ELSE {})

PrimaryPositive(m) == \E i \in AllRows : m.sc[i] > 0

Last(s) == s[Len(s)]

FromFallback(m) ==
    Last(m.res.reason) \in
        {". Using fallback dataset (limited challenge matching available).",
         ". Using fallback dataset feedstock (limited challenge matching).",
         ". Using fallback dataset feedstock (limited challenge matching available)."}

\* the same match against another fallback dataset
Rematch(m, f) ==
    IF m.by = "find_matching_feedstocks"
    THEN find_matching_feedstocks(m.chs, primary_df, f)
    ELSE IF Present(primary_df) THEN row_with_primary(m.chs, primary_df, f)
    ELSE row_without_primary(m.chs, f)

FallbackProbe == FewFallback \cup {DataFrame({"Type"}, <<[Type |-> "Rice Husk"]>>)}

\* C4: the fallback dataset is used only when no primary row scores above
\* zero, the no-data default only when neither dataset yields a feedstock,
\* and when a primary row scores above zero the result is a primary Type
\* that no fallback dataset changes.
C4_StrictChain ==
    \A m \in Matches :
        Len(m.chs) > 0 =>
            /\ PrimaryPositive(m) =>
                  /\ HasType(primary_df)
                  /\ m.res.feedstock \in TypesOf(primary_df)
                  /\ \A f \in FallbackProbe : Rematch(m, f) = m.res
            /\ FromFallback(m) => ~PrimaryPositive(m) /\ Present(fallback_df)
            /\ m.res.data_source = "general_default" =>
                  ~PrimaryPositive(m) /\ ~Present(fallback_df)

\* a primary match made while a non-empty fallback dataset was loaded
C4_Witness ==
    \E m \in Matches :
        /\ m.by = "recommend_biochar"
        /\ Len(m.chs) > 0
        /\ PrimaryPositive(m)
        /\ Present(fallback_df)
        /\ m.res.feedstock \in TypesOf(primary_df)

\* C5: of two primary rows with equal positive scores, one of a main-crop
\* Type and one not, the main-crop row wins whichever comes first.
C5_MainCropPreference ==
    \A m \in Matches :
        (Len(m.chs) > 0 /\ HasType(primary_df)) =>
            \A i \in MainRows : \A j \in AllRows \ MainRows :
                (m.sc[i] = m.sc[j] /\ m.sc[i] > 0) =>
                    /\ m.res.feedstock \in Main
                    /\ m.res.feedstock # primary_df.rows[j]["Type"]
                    /\ len(primary_df) = 2 => m.res.feedstock = primary_df.rows[i]["Type"]

\* the row outside the allowlist comes first and the allowlist row is chosen
C5_Witness ==
    \E m \in Matches :
        /\ m.by = "recommend_biochar"
        /\ Len(m.chs) > 0
        /\ HasType(primary_df)
        /\ len(primary_df) = 2
        /\ 1 \notin MainRows /\ 2 \in MainRows
        /\ m.sc[1] = m.sc[2] /\ m.sc[1] > 0
        /\ m.res.feedstock = primary_df.rows[2]["Type"]

\* C6: with challenges, a primary dataset whose rows all score zero and a
\* non-empty fallback dataset, data_source is experimental_data.
C6_FallbackOrdering ==
    \A m \in Matches :
        (/\ Len(m.chs) > 0
         /\ ~primary_df.isNone
         /\ \A i \in AllRows : m.sc[i] = 0
         /\ Present(fallback_df))
        => m.res.data_source = "experimental_data"

C6_Witness ==
    \E m \in Matches :
        /\ m.by = "recommend_biochar"
        /\ Len(m.chs) > 0
        /\ Present(primary_df)
        /\ \A i \in AllRows : m.sc[i] = 0
        /\ Present(fallback_df)
        /\ m.res.data_source = "experimental_data"

\* the first fallback row of a main-crop Type, else the first fallback row
FirstMainOrFirst(f) ==
    IF \E i \in 1..len(f) : f.rows[i]["Type"] \in Main
    THEN f.rows[CHOOSE i \in 1..len(f) :
                    /\ f.rows[i]["Type"] \in Main
                    /\ \A j \in 1..(i - 1) : f.rows[j]["Type"] \notin Main]["Type"]
    ELSE f.rows[1]["Type"]

\* C7: at the fallback step the feedstock is the Type of the first
\* main-crop fallback row, else of the first fallback row, in
\* find_matching_feedstocks and in recommend_biochar.
C7_FallbackFeedstock ==
    \A m \in Matches :
        (/\ Len(m.chs) > 0
         /\ ~PrimaryPositive(m)
         /\ Present(fallback_df)
         /\ HasType(fallback_df))
        => m.res.feedstock = FirstMainOrFirst(fallback_df)

\* C8: with challenges and no feedstock from either dataset the result is
\* "No recommendation", general_default, low, with a reason that lists the
\* challenges, in find_matching_feedstocks and on every such path of
\* recommend_biochar.
C8_NoDataDefault ==
    /\ \A m \in Matches :
          (Len(m.chs) > 0 /\ ~PrimaryPositive(m) /\ ~Present(fallback_df))
          => /\ m.res.feedstock = "No recommendation"
             /\ m.res.data_source = "general_default"
             /\ m.res.data_quality = "low"
             /\ Range(m.chs) \subseteq Range(m.res.reason)
    /\ (ret.kind = "table" /\ ColumnsFound /\ primary_df.isNone /\ fallback_df.isNone)
        => \A i \in 1..Len(ret.rows) :
              Len(Lists[i]) > 0
              => /\ RowIs(i, "No recommendation", "general_default", "low")
                 /\ Range(Lists[i]) \subseteq Range(ret.rows[i]["Recommendation_Reason"])

\* C9: when a main-crop primary row scores above zero, the feedstock is the
\* Type of the earliest main-crop row of maximum score, with
\* experimental_data, high and the reason
\* "Addresses {score}/{total} soil challenges: {challenge list}".
C9_MainCropMaximum ==
    \A m \in Matches :
        (/\ Len(m.chs) > 0
         /\ HasType(primary_df)
         /\ \E i \in MainRows : m.sc[i] > 0)
        => \E k \in MainRows :
              /\ \A j \in MainRows : m.sc[j] <= m.sc[k]
              /\ \A j \in MainRows : j < k => m.sc[j] < m.sc[k]
              /\ m.res.feedstock = primary_df.rows[k]["Type"]
              /\ m.res.data_source = "experimental_data"
              /\ m.res.data_quality = "high"
              /\ m.res.reason =
                    <<"Addresses ", str(m.sc[k]), "/", str(Len(m.chs)),
                      " soil challenges: ">> \o join(m.chs)

\* two main-crop rows of different Types tie and the earlier one is chosen
C9_Witness ==
    \E m \in Matches :
        /\ m.by = "recommend_biochar"
        /\ Len(m.chs) = 2
        /\ HasType(primary_df)
        /\ MainRows = {1, 2}
        /\ m.sc[1] = m.sc[2] /\ m.sc[1] > 0
        /\ primary_df.rows[1]["Type"] # primary_df.rows[2]["Type"]
        /\ m.res.feedstock = primary_df.rows[1]["Type"]

\* C10: when no main-crop primary row scores above zero but some primary row
\* does, the feedstock is the Type of the earliest row of maximum score,
\* with experimental_data, high and a reason ending " (fallback feedstock)".
C10_BestOverall ==
    \A m \in Matches :
        (/\ Len(m.chs) > 0
         /\ HasType(primary_df)
         /\ \A i \in MainRows : m.sc[i] = 0
         /\ \E i \in AllRows : m.sc[i] > 0)
        => \E k \in AllRows :
              /\ \A j \in AllRows : m.sc[j] <= m.sc[k]
              /\ \A j \in AllRows : j < k => m.sc[j] < m.sc[k]
              /\ m.res.feedstock = primary_df.rows[k]["Type"]
              /\ m.res.data_source = "experimental_data"
              /\ m.res.data_quality = "high"
              /\ Last(m.res.reason) = " (fallback feedstock)"

\* a row outside the allowlist with the higher score follows one with a
\* lower positive score, and is chosen
C10_Witness ==
    \E m \in Matches :
        /\ m.by = "recommend_biochar"
        /\ HasType(primary_df)
        /\ len(primary_df) = 2
        /\ MainRows = {}
        /\ m.sc[1] > 0 /\ m.sc[2] > m.sc[1]
        /\ m.res.feedstock = primary_df.rows[2]["Type"]
        /\ Last(m.res.reason) = " (fallback feedstock)"

\* ================================================= challenge identification
\* A reference dataset in which every label is addressed by some row, so
\* that the reason of a row with challenges lists its challenge set.
ChallengePrimary ==
    DataFrame(PrimaryColumns,
              <<PrimaryRow("Rice Husk",
                           {"Challenge_Low_OC", "Challenge_High_pH", "Challenge_Low_pH"}),
                PrimaryRow("Corn Straw",
                           {"Challenge_High_Temperature", "Challenge_Low_Moisture"})>>)

\* measurements below, on and above each threshold, and absent
SocValues == {NaN, <<15>>, <<20>>, <<25>>}

PhValues == {NaN, <<40>>, <<45>>, <<70>>, <<80>>, <<90>>}

MoistureValues == {NaN, <<290>>, <<300>>, <<500>>}

TemperatureValues == {NaN, <<200>>, <<300>>, <<310>>}

ThresholdSamples ==
    {[mean_soc |-> a, mean_ph |-> b, mean_moisture |-> c, mean_temperature |-> d] :
        a \in SocValues, b \in PhValues, c \in MoistureValues, d \in TemperatureValues}

\* batches with and without the optional moisture and temperature columns
OptionalColumnChoices ==
    {MeasurementColumns, <<"mean_soc", "mean_ph", "mean_moisture">>,
     <<"mean_soc", "mean_ph", "mean_temperature">>, <<"mean_soc", "mean_ph">>}

DrySample ==
    [mean_soc |-> <<25>>, mean_ph |-> <<70>>, mean_moisture |-> <<290>>,
     mean_temperature |-> NaN]

\* a one-row batch of every sample, and every sample after a fixed first row
InitChallenges ==
    /\ primary_df = ChallengePrimary
    /\ fallback_df = NoneDF
    /\ \E cols \in OptionalColumnChoices, s \in ThresholdSamples, two \in BOOLEAN :
          hex_df = [columns |-> cols,
                    rows |-> (IF two THEN <<[c \in Range(cols) |-> DrySample[c]]>>
                              ELSE <<>>)
                             \o <<[c \in Range(cols) |-> s[c]]>>]
    /\ challenges = <<>>
    /\ ret = NoCall
    /\ files = NoFiles

\* a measurement of row i, absent when the batch has no such column
measurement(i, c) ==
    IF c \in Range(hex_df.columns) THEN hex_df.rows[i][c] ELSE NaN

\* identify_soil_challenges called with the measurements of row i
IdentifySoilChallenges(i) ==
    /\ ret = NoCall
    /\ LET soc == measurement(i, "mean_soc")
           ph == measurement(i, "mean_ph")
           moisture == measurement(i, "mean_moisture")
           temperature == measurement(i, "mean_temperature")
       IN  ret' = [kind |-> "challenges", soc |-> soc, ph |-> ph,
                   moisture |-> moisture, temperature |-> temperature,
                   value |-> identify_soil_challenges(soc, ph, moisture, temperature)]
    /\ UNCHANGED <<primary_df, fallback_df, hex_df, challenges, files>>

NextChallenges ==
    \/ RecommendBiochar
    \/ \E i \in 1..Len(hex_df.rows) : IdentifySoilChallenges(i)

SpecChallenges == InitChallenges /\ [][NextChallenges]_vars

\* ------------------------------------------------------ claim vocabulary
Labels == {"Low OC", "High pH", "Low pH", "High Temperature", "Low Moisture"}

\* the challenge set a sample has by the stated thresholds
Expected(soc, ph, moisture, temperature) ==
    {l \in Labels :
        \/ l = "Low OC" /\ notna(soc) /\ soc[1] < 20
        \/ l = "High pH" /\ notna(ph) /\ ph[1] > 80
        \/ l = "Low pH" /\ notna(ph) /\ ph[1] < 45
        \/ l = "High Temperature" /\ notna(temperature) /\ temperature[1] > 300
        \/ l = "Low Moisture" /\ notna(moisture) /\ moisture[1] < 300}

\* the labels a reason lists, in the order it lists them
LabelsIn(reason) ==
    LET IsLabel(t) == t \in Labels IN SelectSeq(reason, IsLabel)

ReasonLabels(i) == LabelsIn(ret.rows[i]["Recommendation_Reason"])

\* a measurement of row i of the returned table
Measured(i, c) == IF c \in DOMAIN ret.rows[i] THEN ret.rows[i][c] ELSE NaN

\* C11: a sample's challenge set holds each label exactly when its
\* measurement is present and strictly beyond the threshold (SOC < 2.0,
\* pH > 8.0, pH < 4.5, temperature > 30.0, moisture < 30.0), and never both
\* High pH and Low pH; in identify_soil_challenges and in the batch flags.
C11_Thresholds ==
    /\ ret.kind = "challenges" =>
          /\ Range(ret.value) = Expected(ret.soc, ret.ph, ret.moisture, ret.temperature)
          /\ ~({"High pH", "Low pH"} \subseteq Range(ret.value))
    /\ Normal =>
          \A i \in 1..Len(ret.rows) :
             /\ Range(ReasonLabels(i)) =
                   Expected(Measured(i, "mean_soc"), Measured(i, "mean_ph"),
                            Measured(i, "mean_moisture"), Measured(i, "mean_temperature"))
             /\ ~({"High pH", "Low pH"} \subseteq Range(ReasonLabels(i)))

\* a batch row exactly on the SOC and temperature thresholds with a high pH
C11_Witness ==
    /\ Normal
    /\ \E i \in 1..Len(ret.rows) :
          /\ Measured(i, "mean_soc") = <<20>>
          /\ Measured(i, "mean_ph") = <<90>>
          /\ Measured(i, "mean_temperature") = <<300>>
          /\ Measured(i, "mean_moisture") = <<300>>
          /\ ReasonLabels(i) = <<"High pH">>

\* the slot of a label in the fixed order
Slot(l) ==
    CASE l = "Low OC" -> 1
      [] l \in {"High pH", "Low pH"} -> 2
      [] l = "High Temperature" -> 3
      [] l = "Low Moisture" -> 4

InOrder(list) == \A i, j \in 1..Len(list) : i < j => Slot(list[i]) < Slot(list[j])

\* C12: the labels of a challenge set always come in the order Low OC,
\* High pH / Low pH, High Temperature, Low Moisture, in the scalar result and
\* in the Recommendation_Reason of every batch row.
C12_FixedOrder ==
    /\ ret.kind = "challenges" => InOrder(ret.value)
    /\ Normal =>
          \A i \in 1..Len(ret.rows) :
             /\ InOrder(ReasonLabels(i))
             /\ ReasonLabels(i) = Lists[i]

\* a hot and dry sample: both calls list High Temperature before Low Moisture
C12_Witness ==
    \/ /\ ret.kind = "challenges"
       /\ ret.value = <<"Low OC", "Low pH", "High Temperature", "Low Moisture">>
    \/ /\ Normal
       /\ \E i \in 1..Len(ret.rows) :
             ReasonLabels(i) = <<"Low OC", "High pH", "High Temperature", "Low Moisture">>

\* the batch with the defaults written into the absent moisture and
\* temperature cells, the column added when the batch has none
WithDefault(df, c, default) ==
    [columns |-> IF c \in Range(df.columns) THEN df.columns ELSE Append(df.columns, c),
     rows |-> [i \in 1..Len(df.rows) |->
                 [k \in (DOMAIN df.rows[i]) \cup {c} |->
                     IF k # c THEN df.rows[i][k]
                     ELSE IF c \in DOMAIN df.rows[i] /\ df.rows[i][c] # NaN
                          THEN df.rows[i][c] ELSE <<default>>]]]

WithDefaults(df) ==
    WithDefault(WithDefault(df, "mean_moisture", 500), "mean_temperature", 200)

\* C13: a row whose moisture or temperature is absent, or whose batch has no
\* such column, never gets Low Moisture or High Temperature from the absent
\* measurement, and its recommendation is that of the same row with
\* moisture 50% and temperature 20 C written in.
C13_Defaults ==
    Normal =>
        LET filled == recommend_biochar(WithDefaults(hex_df), primary_df, fallback_df).ret
        IN  \A i \in 1..Len(ret.rows) :
               /\ \A c \in RecommendationColumns : ret.rows[i][c] = filled.rows[i][c]
               /\ Measured(i, "mean_moisture") = NaN =>
                     "Low Moisture" \notin Range(ReasonLabels(i))
               /\ Measured(i, "mean_temperature") = NaN =>
                     "High Temperature" \notin Range(ReasonLabels(i))

\* a row with an absent moisture cell in a batch without a temperature
\* column, recommended for its other challenges
C13_Witness ==
    /\ Normal
    /\ "mean_temperature" \notin Range(hex_df.columns)
    /\ "mean_moisture" \in Range(hex_df.columns)
    /\ \E i \in 1..Len(ret.rows) :
          /\ Measured(i, "mean_moisture") = NaN
          /\ ReasonLabels(i) = <<"Low OC", "High pH">>
          /\ ret.rows[i]["Recommended_Feedstock"] = "Rice Husk"

\* ======================================================= sentinel outputs
\* C14: whenever the batch has no SOC column or no pH column, every row gets
\* the same "Insufficient data" recommendation with the same reason, and no
\* row gets a computed result.
C14_InsufficientData ==
    (ret.kind = "table" /\ ~ColumnsFound) =>
        \A i \in 1..Len(ret.rows) :
           /\ ret.rows[i]["Recommended_Feedstock"] = "Insufficient data"
           /\ ret.rows[i]["Recommendation_Reason"] = ret.rows[1]["Recommendation_Reason"]
           /\ "Data_Source" \notin DOMAIN ret.rows[i]

\* C15: recommend_biochar never raises, whatever the batch and whatever the
\* loading of the two datasets produced.
C15_NeverRaises == [][RecommendBiochar => ret'.kind = "table"]_vars

\* ================================================== load_pyrolysis_datasets
\* A dataset file is missing, cannot be examined (stat() fails with an error
\* other than "no such file", e.g. permission denied on its directory),
\* exists but cannot be read as CSV, or holds a table.
Missing == [state |-> "missing"]

Unsearchable == [state |-> "unsearchable"]

Unreadable == [state |-> "unreadable"]

File(table) == [state |-> "file", table |-> table]

\* Path.exists(): pathlib re-raises an OSError of stat() other than ENOENT,
\* ENOTDIR, EBADF and ELOOP up to Python 3.12; later versions answer False
exists(file) ==
    IF file.state = "unsearchable" THEN {"PermissionError", "False"}
    ELSE IF file.state = "missing" THEN {"False"}
    ELSE {"True"}

\* pd.read_csv(path)
read_csv(file) == IF file.state = "file" THEN file.table ELSE Raise("Exception")

\* lines 75-81 and 83-89: one dataset, given what exists() answered
load_dataset(file, found) ==
    IF found = "True"
    THEN LET df == read_csv(file)
         IN  IF df = Raise("Exception") THEN NoneDF ELSE df
    ELSE NoneDF

\* lines 70-93, given what the two exists() calls answer; attempted lists the
\* sources whose existence test was reached
load_pyrolysis_datasets(fs, found_primary, found_fallback) ==
    IF found_primary = "PermissionError"
    THEN [kind |-> "raise", exc |-> "PermissionError", attempted |-> <<"primary">>]
    ELSE IF found_fallback = "PermissionError"
    THEN [kind |-> "raise", exc |-> "PermissionError",
          attempted |-> <<"primary", "fallback">>]
    ELSE [kind |-> "pair",
          primary_df |-> load_dataset(fs.primary, found_primary),
          fallback_df |-> load_dataset(fs.fallback, found_fallback),
          attempted |-> <<"primary", "fallback">>]

\* the tables a dataset file may hold
RawTables == Small(WellFormedPrimary) \cup {DataFrame({"Type"}, <<>>)}

FileStates == {Missing, Unsearchable, Unreadable} \cup {File(t) : t \in RawTables}

InitLoad ==
    /\ files \in [primary : FileStates, fallback : FileStates]
    /\ primary_df = NoneDF
    /\ fallback_df = NoneDF
    /\ hex_df = [columns |-> <<>>, rows |-> <<>>]
    /\ challenges = <<>>
    /\ ret = NoCall

LoadPyrolysisDatasets ==
    /\ ret = NoCall
    /\ \E found_primary \in exists(files.primary), found_fallback \in exists(files.fallback) :
          LET r == load_pyrolysis_datasets(files, found_primary, found_fallback)
          IN  /\ ret' = r
              /\ primary_df' = IF r.kind = "pair" THEN r.primary_df ELSE primary_df
              /\ fallback_df' = IF r.kind = "pair" THEN r.fallback_df ELSE fallback_df
    /\ UNCHANGED <<hex_df, challenges, files>>

NextLoad == LoadPyrolysisDatasets

SpecLoad == InitLoad /\ [][NextLoad]_vars

\* what the loader owes for one source: its table when the file holds one
Loaded(file) == IF file.state = "file" THEN file.table ELSE NoneDF

\* C16: load_pyrolysis_datasets attempts both sources independently; each
\* element of the returned pair is the loaded table exactly when its own read
\* succeeded and null otherwise, the fallback is attempted even when the
\* primary fails, and no exception propagates.
C16_IndependentLoads ==
    ret # NoCall =>
        /\ ret.kind = "pair"
        /\ ret.attempted = <<"primary", "fallback">>
        /\ ret.primary_df = Loaded(files.primary)
        /\ ret.fallback_df = Loaded(files.fallback)

\* ================================================= clean_and_convert_types
\* A str is the sequence of its characters.  A float is a reduced fraction
\* [n, d] with d > 0, and nan is [n |-> 0, d |-> 0].  A raw cell is nan or
\* Str(s).
MaxLen == 4

Str(s) == [str |-> s]

nan == [n |-> 0, d |-> 0]

isna(val) == val = nan

RECURSIVE gcd(_, _)
gcd(a, b) == IF b = 0 THEN a ELSE gcd(b, a % b)

Float(n, d) ==
    LET g == gcd(IF n < 0 THEN -n ELSE n, d) IN [n |-> n \div g, d |-> d \div g]

\* (a + b) / 2.0
mean(a, b) ==
    IF isna(a) \/ isna(b) THEN nan ELSE Float(a.n * b.d + b.n * a.d, 2 * a.d * b.d)

DigitChars == <<"0", "1", "2", "3", "4", "5", "6", "7", "8", "9">>

digit(c) == (CHOOSE i \in 1..Len(DigitChars) : DigitChars[i] = c) - 1

\* every character is a decimal digit (true of the empty str)
alldigits(s) == \A i \in 1..Len(s) : s[i] \in Range(DigitChars)

RECURSIVE int(_)
int(s) == IF s = <<>> THEN 0 ELSE 10 * int(SubSeq(s, 1, Len(s) - 1)) + digit(s[Len(s)])

RECURSIVE pow10(_)
pow10(k) == IF k = 0 THEN 1 ELSE 10 * pow10(k - 1)

Whitespace == {" ", "\t", "\n"}

RECURSIVE lstrip(_)
lstrip(s) == IF s # <<>> /\ s[1] \in Whitespace THEN lstrip(Tail(s)) ELSE s

RECURSIVE rstrip(_)
rstrip(s) ==
    IF s # <<>> /\ s[Len(s)] \in Whitespace THEN rstrip(SubSeq(s, 1, Len(s) - 1)) ELSE s

\* s.strip()
strip(s) == rstrip(lstrip(s))

UpperChars == <<"A", "E", "L", "N", "O", "U">>

LowerChars == <<"a", "e", "l", "n", "o", "u">>

\* s.lower(), for the letters that occur
lower(s) ==
    [i \in 1..Len(s) |->
        IF s[i] \in Range(UpperChars)
        THEN LowerChars[CHOOSE k \in 1..Len(UpperChars) : UpperChars[k] = s[i]]
        ELSE s[i]]

\* s.find(c) + 1: the position of the first c in s, 0 when there is none
find(s, c) ==
    IF \E i \in 1..Len(s) : s[i] = c
    THEN CHOOSE i \in 1..Len(s) : s[i] = c /\ \A j \in 1..(i - 1) : s[j] # c
    ELSE 0

\* s.split(sep)
RECURSIVE split(_, _)
split(s, sep) ==
    LET k == find(s, sep)
    IN  IF k = 0 THEN <<s>>
        ELSE <<SubSeq(s, 1, k - 1)>> \o split(SubSeq(s, k + 1, Len(s)), sep)

\* float(s) of Python: surrounding whitespace, a sign, digits with an
\* optional point, an optional exponent; "nan" in any letter case; anything
\* else raises ValueError (the literals inf and infinity are not among the
\* inputs)
float(s) ==
    LET t == strip(s)
        signed == t # <<>> /\ t[1] \in {"-", "+"}
        u == IF signed THEN Tail(t) ELSE t
        sign == IF signed /\ t[1] = "-" THEN -1 ELSE 1
        e == find(lower(u), "e")
        mantissa == IF e = 0 THEN u ELSE SubSeq(u, 1, e - 1)
        exponent == IF e = 0 THEN <<>> ELSE SubSeq(u, e + 1, Len(u))
        esigned == exponent # <<>> /\ exponent[1] \in {"-", "+"}
        edigits == IF esigned THEN Tail(exponent) ELSE exponent
        dot == find(mantissa, ".")
        whole == IF dot = 0 THEN mantissa ELSE SubSeq(mantissa, 1, dot - 1)
        fraction == IF dot = 0 THEN <<>> ELSE SubSeq(mantissa, dot + 1, Len(mantissa))
        valid == /\ alldigits(whole) /\ alldigits(fraction)
                 /\ Len(whole) + Len(fraction) > 0
                 /\ e # 0 => (edigits # <<>> /\ alldigits(edigits))
        exp == (IF esigned /\ exponent[1] = "-" THEN -int(edigits) ELSE int(edigits))
               - Len(fraction)
        digits == sign * int(whole \o fraction)
    IN  IF lower(u) = <<"n", "a", "n">> THEN nan
        ELSE IF ~valid THEN Raise("ValueError")
        ELSE IF exp >= 0 THEN Float(digits * pow10(exp), 1)
        ELSE Float(digits, pow10(-exp))

\* lines 101-116
parse_value(val) ==
    IF isna(val) \/ val = Str(<<>>) THEN nan
    ELSE IF "str" \notin DOMAIN val THEN val
    ELSE LET val_str == strip(val.str)
         IN  IF "-" \in Range(val_str) /\ val_str[1] # "-"
             THEN LET parts == split(val_str, "-")
                      low == float(parts[1])
                      high == float(parts[2])
                  IN  IF low = Raise("ValueError") \/ high = Raise("ValueError")
                      THEN nan
                      ELSE mean(low, high)
             ELSE LET f == float(val_str)
                  IN  IF f = Raise("ValueError") THEN nan ELSE f

NUMERIC_COLUMNS ==
    {"Cellulose", "Hemicellulose", "Lignin", "Ash content", "Moisture content",
     "O (%)", "C (%)", "Fixed carbon content", "Volatile matter",
     "Final Temperature", "Heating Rate", "Residence Time\"\" (min)",
     "Biochar Yield (%)", "H/C ratio", "O/C ratio", "pH", "pore size"}

\* name.strip().replace('"', ''), for the column names that occur
clean_name(name) ==
    CASE name = "Residence Time\"\" (min)" -> "Residence Time (min)"
      [] name = " pH " -> "pH"
      [] OTHER -> name

\* df[col].astype(str): an absent cell becomes the str 'nan'
astype_str(val) == IF isna(val) THEN Str(<<"n", "a", "n">>) ELSE val

\* Series.replace(['', ' ', 'nan', 'None', 'null'], np.nan): whole-cell match
replace_absent(val) ==
    IF val.str \in {<<>>, <<" ">>, <<"n", "a", "n">>, <<"N", "o", "n", "e">>,
                    <<"n", "u", "l", "l">>}
    THEN nan ELSE val

\* lines 96-123
clean_and_convert_types(df) ==
    LET columns == {clean_name(c) : c \in df.columns}
        old(c) == CHOOSE k \in df.columns : clean_name(k) = c
    IN  DataFrame(columns,
                  [i \in 1..len(df) |->
                      [c \in columns |->
                          IF c \in NUMERIC_COLUMNS
                          THEN parse_value(replace_absent(astype_str(df.rows[i][old(c)])))
                          ELSE df.rows[i][old(c)]]])

\* ------------------------------------------------------------ input sets
CellChars == {"1", "2", "-", " "}

\* cells the spec names, and strs with an exponent, a point or letters
NamedCells ==
    {<<"1", "0", "-", "2", "0">>, <<"-", "5">>, <<"n", "a", "n">>, <<"N", "a", "N">>,
     <<"N", "o", "n", "e">>, <<"N", "O", "N", "E">>, <<"n", "u", "l", "l">>,
     <<"N", "u", "l", "l">>, <<"1", "e", "-", "5">>, <<"1", "e", "5">>,
     <<"1", "e", "-", "1", "-", "1">>, <<"1", ".", "5", "-", "2", ".", "5">>,
     <<"1", "0", "-", "2", "0", "-", "3", "0">>, <<"l", "o", "w">>}

RawCells == {nan} \cup {Str(s) : s \in SeqsUpTo(CellChars, MaxLen) \cup NamedCells}

CellColumns == {"pH", " pH ", "Residence Time\"\" (min)", "Notes"}

\* a dataset as read from the file: one row with a Type and one other cell
RawDatasets ==
    {DataFrame({"Type", c}, <<[k \in {"Type", c} |->
                                  IF k = "Type" THEN "Rice Husk" ELSE val]>>) :
        c \in CellColumns, val \in RawCells}

InitClean ==
    /\ primary_df \in RawDatasets
    /\ fallback_df = NoneDF
    /\ hex_df = [columns |-> <<>>, rows |-> <<>>]
    /\ challenges = <<>>
    /\ ret = NoCall
    /\ files = NoFiles

CleanAndConvertTypes ==
    /\ ret = NoCall
    /\ ret' = [kind |-> "cleaned", df |-> clean_and_convert_types(primary_df)]
    /\ UNCHANGED <<primary_df, fallback_df, hex_df, challenges, files>>

NextClean == CleanAndConvertTypes

SpecClean == InitClean /\ [][NextClean]_vars

\* ------------------------------------------------------ claim vocabulary
IsStr(val) == "str" \in DOMAIN val

\* s is the literal of a number that is not negative
NonNegative(s) ==
    /\ s # <<>> /\ float(s) # Raise("ValueError") /\ ~isna(float(s))
    /\ strip(s)[1] # "-"

\* the positions at which s reads "low-high" with two non-negative numbers
RangeSplits(s) ==
    {k \in 1..Len(s) : /\ s[k] = "-"
                       /\ NonNegative(SubSeq(s, 1, k - 1))
                       /\ NonNegative(SubSeq(s, k + 1, Len(s)))}

AbsentToken(val) ==
    \/ isna(val)
    \/ /\ IsStr(val)
       /\ \/ strip(val.str) = <<>>
          \/ lower(val.str) \in {<<"n", "a", "n">>, <<"n", "o", "n", "e">>,
                                 <<"n", "u", "l", "l">>}

\* the cleaned cell of column c of row i
Cleaned(i, c) == ret.df.rows[i][clean_name(c)]

\* C17: in every listed numeric column a cell "low-high" of two non-negative
\* numbers becomes (low + high) / 2, a cell with a leading minus becomes the
\* negative number, and an absent token (empty, whitespace, nan / None / null
\* in any letter case, true absence) becomes absent.
C17_Normalized ==
    ret.kind = "cleaned" =>
        \A c \in primary_df.columns \cap NUMERIC_COLUMNS, i \in 1..len(primary_df) :
            LET val == primary_df.rows[i][c]
            IN  /\ AbsentToken(val) => isna(Cleaned(i, c))
                /\ IsStr(val) =>
                      /\ \A k \in RangeSplits(val.str) :
                            Cleaned(i, c) = mean(float(SubSeq(val.str, 1, k - 1)),
                                                 float(SubSeq(val.str, k + 1, Len(val.str))))
                      /\ (strip(val.str) # <<>> /\ strip(val.str)[1] = "-"
                          /\ float(val.str) # Raise("ValueError")) =>
                            Cleaned(i, c) = float(val.str)

\* s has a single hyphen, inside it, and reads "low-high"
SingleInteriorRange(s) ==
    /\ Cardinality({k \in 1..Len(s) : s[k] = "-"}) = 1
    /\ find(s, "-") \notin {1, Len(s)}
    /\ float(SubSeq(s, 1, find(s, "-") - 1)) # Raise("ValueError")
    /\ float(SubSeq(s, find(s, "-") + 1, Len(s))) # Raise("ValueError")

\* C18: the range rule applies only to a str with a single interior hyphen
\* that reads "low-high"; every other non-absent str gets a direct float
\* parse, giving that float for a valid literal and absent otherwise.
C18_RangeOnly ==
    ret.kind = "cleaned" =>
        \A c \in primary_df.columns, i \in 1..len(primary_df) :
            LET val == primary_df.rows[i][c]
                s == strip(val.str)
            IN  (clean_name(c) \in NUMERIC_COLUMNS /\ IsStr(val) /\ ~AbsentToken(val)) =>
                    Cleaned(i, c) =
                        IF SingleInteriorRange(s)
                        THEN mean(float(SubSeq(s, 1, find(s, "-") - 1)),
                                  float(SubSeq(s, find(s, "-") + 1, Len(s))))
                        ELSE IF float(s) = Raise("ValueError") THEN nan ELSE float(s)

\* ================================================ _process_dataset: challenges
\* A free-text cell is nan or Str(s); the characters of s are ";", " " and
\* whole labels.  An absent Type is None.
challenge_col == "Soil Challenges to amend"

\* CHALLENGE_COLUMNS in the order of the list
CHALLENGE_COLUMNS_list ==
    <<"Challenge_High_Temperature", "Challenge_High_pH", "Challenge_Low_Moisture",
      "Challenge_Low_OC", "Challenge_Low_pH">>

\* challenge_col_name.replace('Challenge_', '').replace('_', ' ')
challenge_name(challenge_col_name) ==
    CASE challenge_col_name = "Challenge_High_Temperature" -> <<"High Temperature">>
      [] challenge_col_name = "Challenge_High_pH" -> <<"High pH">>
      [] challenge_col_name = "Challenge_Low_Moisture" -> <<"Low Moisture">>
      [] challenge_col_name = "Challenge_Low_OC" -> <<"Low OC">>
      [] challenge_col_name = "Challenge_Low_pH" -> <<"Low pH">>

\* df[df['Type'] == feedstock]
feedstock_data(df, feedstock) ==
    LET OfType(row) == row["Type"] = feedstock IN SelectSeq(df.rows, OfType)

\* Series.dropna()
dropna(values) == LET present(val) == ~isna(val) IN SelectSeq(values, present)

\* Series.unique(): the values in the order of their first appearance
RECURSIVE unique(_)
unique(values) ==
    IF values = <<>> THEN <<>>
    ELSE LET before == unique(SubSeq(values, 1, Len(values) - 1))
             val == values[Len(values)]
         IN  IF val \in Range(before) THEN before ELSE Append(before, val)

\* lines 181-186: the labels of the free-text cells
RECURSIVE text_challenges(_)
text_challenges(challenge_values) ==
    IF challenge_values = <<>> THEN <<>>
    ELSE LET val == challenge_values[Len(challenge_values)]
             parts == split(val.str, ";")
         IN  text_challenges(SubSeq(challenge_values, 1, Len(challenge_values) - 1))
             \o (IF val = Str(<<>>) THEN <<>>
                 ELSE IF ";" \in Range(val.str)
                 THEN [k \in 1..Len(parts) |-> strip(parts[k])]
                 ELSE <<strip(val.str)>>)

\* lines 189-193: the names of the challenge columns true in some row
RECURSIVE column_challenges(_, _, _)
column_challenges(names, rows, found) ==
    IF names = <<>> THEN found
    ELSE LET name == names[1]
             any == \E i \in 1..Len(rows) : name \in DOMAIN rows[i] /\ rows[i][name]
         IN  column_challenges(Tail(names), rows,
                 IF any /\ challenge_name(name) \notin Range(found)
                 THEN Append(found, challenge_name(name)) ELSE found)

\* lines 176-193: the list collected for one feedstock
collected(df, feedstock) ==
    LET rows == feedstock_data(df, feedstock)
        cells == [i \in 1..Len(rows) |-> rows[i][challenge_col]]
    IN  column_challenges(CHALLENGE_COLUMNS_list, rows,
                          text_challenges(unique(dropna(cells))))

\* the list is returned as it was collected
list_keep(found) == {found}

\* list(set(challenges)): the distinct elements, in an order the build chooses
list_set(found) ==
    LET S == Range(found) IN {p \in [1..Cardinality(S) -> S] : Range(p) = S}

\* lines 171-196: the possible values of result['challenges']
process_challenges(df) ==
    LET types == IF "Type" \in df.columns /\ challenge_col \in df.columns
                 THEN {df.rows[i]["Type"] : i \in 1..len(df)} \ {None}
                 ELSE {}
    IN  {f \in [types -> UNION {list_set(collected(df, t)) : t \in types}] :
            \A t \in types : f[t] \in list_set(collected(df, t))}

\* ------------------------------------------------------------ input sets
FreeTexts ==
    {nan, Str(<<>>), Str(<<"Low OC">>), Str(<<"Low OC", ";", " ", "High pH">>),
     Str(<<" ", "High pH", " ", ";">>)}

FlagColumns == {"Challenge_Low_OC", "Challenge_High_pH"}

FlagValues == {{}, {"Challenge_Low_OC"}, {"Challenge_Low_OC", "Challenge_High_pH"}}

ProcessTypes == {"Rice Husk", "Bamboo", None}

ProcessColumns ==
    {{"Type", challenge_col} \cup FlagColumns, {"Type", challenge_col},
     {"Type"} \cup FlagColumns, {challenge_col} \cup FlagColumns}

ProcessRows ==
    {[c \in {"Type", challenge_col} \cup FlagColumns |->
        IF c = "Type" THEN t ELSE IF c = challenge_col THEN text ELSE c \in flags] :
        t \in ProcessTypes, text \in FreeTexts, flags \in FlagValues}

\* the datasets of up to MaxRows rows over each choice of columns
ProcessDatasets ==
    {DataFrame(cols, [i \in 1..Len(r) |-> [c \in cols |-> r[i][c]]]) :
        cols \in ProcessColumns, r \in SeqsUpTo(ProcessRows, MaxRows)}

InitProcess ==
    /\ primary_df \in ProcessDatasets
    /\ fallback_df = NoneDF
    /\ hex_df = [columns |-> <<>>, rows |-> <<>>]
    /\ challenges = <<>>
    /\ ret = NoCall
    /\ files = NoFiles

ProcessDataset ==
    /\ ret = NoCall
    /\ \E f \in process_challenges(primary_df) :
          ret' = [kind |-> "processed", challenges |-> f]
    /\ UNCHANGED <<primary_df, fallback_df, hex_df, challenges, files>>

NextProcess == ProcessDataset

SpecProcess == InitProcess /\ [][NextProcess]_vars

\* C19: in the index built by _process_dataset no challenges[type] holds the
\* same label twice.
C19_NoDuplicates ==
    ret.kind = "processed" =>
        \A t \in DOMAIN ret.challenges :
            \A i, j \in 1..Len(ret.challenges[t]) :
                i # j => ret.challenges[t][i] # ret.challenges[t][j]

\* two rows of one Type whose cells share Low OC, which a flag marks as well
C19_Witness ==
    /\ ret.kind = "processed"
    /\ len(primary_df) = 2
    /\ primary_df.columns = {"Type", challenge_col} \cup FlagColumns
    /\ \A i \in 1..2 : primary_df.rows[i]["Type"] = "Rice Husk"
    /\ primary_df.rows[1][challenge_col] = Str(<<"Low OC">>)
    /\ primary_df.rows[2][challenge_col] = Str(<<"Low OC", ";", " ", "High pH">>)
    /\ primary_df.rows[1]["Challenge_Low_OC"]
    /\ Len(ret.challenges["Rice Husk"]) = 2

\* the rows of a Type
RowsOf(t) == {i \in 1..len(primary_df) : primary_df.rows[i]["Type"] = t}

\* (a) the trimmed tokens of the free-text cells of the rows of a Type
TextTokens(t) ==
    IF challenge_col \notin primary_df.columns THEN {}
    ELSE UNION {LET val == primary_df.rows[i][challenge_col]
                    parts == split(val.str, ";")
                IN  IF isna(val) THEN {} ELSE {strip(parts[k]) : k \in 1..Len(parts)} :
                i \in RowsOf(t)}

\* (b) the humanized names of the challenge columns true in a row of a Type
FlagNames(t) ==
    {challenge_name(c) : c \in {k \in CHALLENGE_COLUMNS \cap primary_df.columns :
                                   \E i \in RowsOf(t) : primary_df.rows[i][k]}}

\* the labels the index holds for a Type, none when it has no entry
Indexed(t) == IF t \in DOMAIN ret.challenges THEN Range(ret.challenges[t]) ELSE {}

\* C20: for a dataset with a Type column and every distinct non-absent Type,
\* challenges[type] is the union of (a) and (b), and (b) is included whether
\* or not the dataset has the free-text column.  (Empty tokens are left out
\* of the comparison, and a Type without an entry counts as having no label.)
C20_ChallengeUnion ==
    (ret.kind = "processed" /\ "Type" \in primary_df.columns) =>
        \A t \in {primary_df.rows[i]["Type"] : i \in 1..len(primary_df)} \ {None} :
            Indexed(t) \ {<<>>} = (TextTokens(t) \cup FlagNames(t)) \ {<<>>}

\* ==================================================== find_similar_feedstock
\* A name (crop, residue, feedstock Type) is the sequence of its words and of
\* the whitespace between them.  An optional str argument is Str(s) or Absent.
Absent == [none |-> TRUE]

\* SIMILAR_FEEDSTOCK_GROUPS.items(): the group names in the order of the dict
GROUP_NAMES ==
    <<"husk_types", "coffee_related", "corn_related", "legume_straws", "grain_straws">>

SIMILAR_FEEDSTOCK_GROUPS ==
    [group_name \in Range(GROUP_NAMES) |->
        CASE group_name = "husk_types" ->
               [feedstocks |-> << <<"Rice", " ", "Husk">> >>,
                keywords |-> {"rice", "arroz"},
                residue_keywords |-> {"husk", "casca"}]
          [] group_name = "coffee_related" ->
               [feedstocks |-> << <<"Coffee", " ", "Silverskin">>,
                                  <<"Spent", " ", "Coffee", " ", "Ground">> >>,
                keywords |-> {"coffee", "café", "cafe"},
                residue_keywords |-> {"silverskin", "ground", "pulp"}]
          [] group_name = "corn_related" ->
               [feedstocks |-> << <<"Corn", " ", "Straw">>, <<"Corn", " ", "cob">> >>,
                keywords |-> {"corn", "milho", "maize"},
                residue_keywords |-> {"straw", "stover", "cob", "stalk"}]
          [] group_name = "legume_straws" ->
               [feedstocks |-> << <<"Soybean", " ", "Straw">> >>,
                keywords |-> {"soybean", "soja", "bean", "pea", "lentil", "chickpea",
                              "legume"},
                residue_keywords |-> {"straw", "residue"}]
          [] group_name = "grain_straws" ->
               [feedstocks |-> << <<"Corn", " ", "Straw">>, <<"Soybean", " ", "Straw">> >>,
                keywords |-> {"wheat", "sorghum", "oats", "barley", "rye", "millet",
                              "grain", "cereal", "trigo"},
                residue_keywords |-> {"straw", "stover", "residue"}]]

\* the case of every word is kept
keep_case(name) == name

\* name.lower(), for the words that occur
lower_words(name) ==
    [i \in 1..Len(name) |->
        CASE name[i] \in {"Corn", "CORN"} -> "corn"
          [] name[i] = "Rice" -> "rice"
          [] name[i] \in {"Husk", "HUSK"} -> "husk"
          [] name[i] = "Straw" -> "straw"
          [] name[i] = "Coffee" -> "coffee"
          [] name[i] = "Silverskin" -> "silverskin"
          [] name[i] = "Spent" -> "spent"
          [] name[i] = "Ground" -> "ground"
          [] name[i] = "Soybean" -> "soybean"
          [] name[i] = "Wheat" -> "wheat"
          [] OTHER -> name[i]]

\* name.split(): the words of the name
words(name) == {name[i] : i \in {k \in 1..Len(name) : name[k] \notin Whitespace}}

\* the keywords that are substrings of a lowercase word
substrings(word) ==
    CASE word = "husks" -> {"husk"}
      [] word = "groundnut" -> {"ground"}
      [] word = "cobs" -> {"cob"}
      [] OTHER -> {word}

\* keyword in residue_lower
keyword_in(keyword, residue_lower) ==
    \E i \in 1..Len(residue_lower) : keyword \in substrings(residue_lower[i])

\* every group may be selected on its residue keywords
all_groups == Range(GROUP_NAMES)

\* line 245: the groups that may be selected on their residue keywords
residue_groups == {"husk_types", "coffee_related"}

\* lines 241-245: the condition under which the loop returns at a group
group_selected(group_name, crop_lower, residue_type, residue_lower) ==
    LET group_info == SIMILAR_FEEDSTOCK_GROUPS[group_name]
        crop_match == \E keyword \in group_info.keywords :
                          crop_lower = <<keyword>> \/ keyword \in words(crop_lower)
        residue_match == /\ residue_type # Absent
                         /\ residue_type # Str(<<>>)
                         /\ \E keyword \in group_info.residue_keywords :
                               keyword_in(keyword, residue_lower)
    IN  crop_match \/ (residue_match /\ group_name \in residue_groups)

\* the loop runs to its end and keeps the last group selected
last_selected(selected) == CHOOSE i \in selected : \A j \in selected : j <= i

\* the loop returns at the first group selected
first_selected(selected) == CHOOSE i \in selected : \A j \in selected : i <= j

NotFound == [found |-> FALSE]

\* lines 231-250
find_similar_feedstock(crop_name, residue_type) ==
    IF crop_name = <<>> THEN NotFound
    ELSE LET crop_lower == strip(lower_words(crop_name))
             residue_lower == IF residue_type # Absent /\ residue_type # Str(<<>>)
                              THEN strip(lower_words(residue_type.str)) ELSE <<>>
             selected == {i \in 1..Len(GROUP_NAMES) :
                             group_selected(GROUP_NAMES[i], crop_lower, residue_type,
                                            residue_lower)}
         IN  IF selected = {} THEN NotFound
             ELSE LET group_name == GROUP_NAMES[first_selected(selected)]
                  IN  [found |-> TRUE,
                       feedstock |-> SIMILAR_FEEDSTOCK_GROUPS[group_name].feedstocks[1],
                       group |-> group_name]

\* ------------------------------------------------------------ input sets
CropNames ==
    {<<>>, <<" ">>, <<"corn">>, <<"Corn">>, <<" ", "CORN", " ">>, <<"sweet", " ", "corn">>,
     <<"popcorn">>, <<"rice">>, <<"coffee">>, <<"soybean">>, <<"Wheat">>,
     <<"wheat", " ", "corn">>, <<"rice", " ", "bean">>, <<"banana">>}

ResidueTypes ==
    {Absent} \cup
    {Str(r) : r \in {<<>>, <<"straw">>, <<"Straw">>, <<"Husk">>, <<"husks">>, <<"cob">>,
                     <<"stover">>, <<"groundnut", " ", "shell">>, <<"husk", " ", "pulp">>,
                     <<"leaves">>}}

InitResolve ==
    /\ primary_df = NoneDF
    /\ fallback_df = NoneDF
    /\ hex_df = [columns |-> <<>>, rows |-> <<>>]
    /\ challenges = <<>>
    /\ ret = NoCall
    /\ files = NoFiles

FindSimilarFeedstock(crop_name, residue_type) ==
    /\ ret = NoCall
    /\ ret' = [kind |-> "similar", crop_name |-> crop_name, residue_type |-> residue_type,
               value |-> find_similar_feedstock(crop_name, residue_type)]
    /\ UNCHANGED <<primary_df, fallback_df, hex_df, challenges, files>>

NextResolve ==
    \E crop_name \in CropNames, residue_type \in ResidueTypes :
        FindSimilarFeedstock(crop_name, residue_type)

SpecResolve == InitResolve /\ [][NextResolve]_vars

\* ------------------------------------------------------ claim vocabulary
\* the lowercased, trimmed crop name and residue type of the call
CropLower == strip(lower_words(ret.crop_name))

ResidueLower ==
    IF ret.residue_type = Absent THEN <<>> ELSE strip(lower_words(ret.residue_type.str))

\* the positions, in the declared order, of the groups that match the call
MatchingGroups ==
    {i \in 1..Len(GROUP_NAMES) :
        group_selected(GROUP_NAMES[i], CropLower, ret.residue_type, ResidueLower)}

FirstOf(i) ==
    [found |-> TRUE, feedstock |-> SIMILAR_FEEDSTOCK_GROUPS[GROUP_NAMES[i]].feedstocks[1],
     group |-> GROUP_NAMES[i]]

EarliestMatch ==
    /\ MatchingGroups = {} => ret.value = NotFound
    /\ MatchingGroups # {} =>
          \E i \in MatchingGroups :
             /\ \A j \in MatchingGroups : i <= j
             /\ ret.value = FirstOf(i)

\* C21: the groups are tried in the order husk_types, coffee_related,
\* corn_related, legume_straws, grain_straws; the result is the first
\* feedstock and the name of the earliest matching group, and null when no
\* group matches.
C21_FirstMatchWins == ret.kind = "similar" => EarliestMatch

\* C21 amended: the same, for a crop name that is not empty; an empty crop
\* name gives null before any group is tried.
C21_FirstMatchWinsNonEmpty ==
    ret.kind = "similar" =>
        IF ret.crop_name = <<>> THEN ret.value = NotFound ELSE EarliestMatch

\* "rice bean" matches husk_types and legume_straws and resolves to Rice Husk
C21_Witness ==
    /\ ret.kind = "similar"
    /\ ret.crop_name = <<"rice", " ", "bean">>
    /\ Cardinality(MatchingGroups) = 2
    /\ ret.value = [found |-> TRUE, feedstock |-> <<"Rice", " ", "Husk">>,
                    group |-> "husk_types"]

\* the call names the crop corn, in any letter case and with any padding
IsCorn == ret.crop_name \in {<<"corn">>, <<"Corn">>, <<" ", "CORN", " ">>}

CornRelated ==
    [found |-> TRUE, feedstock |-> <<"Corn", " ", "Straw">>, group |-> "corn_related"]

\* C22: for the crop name "corn", with any residue type or none, the result
\* is Corn Straw of the group corn_related, never grain_straws.
C22_CornPrecedence ==
    (ret.kind = "similar" /\ IsCorn) => ret.value = CornRelated

\* the residue type holds a residue keyword of husk_types or coffee_related
EarlierResidue ==
    \E g \in {"husk_types", "coffee_related"} :
        \E keyword \in SIMILAR_FEEDSTOCK_GROUPS[g].residue_keywords :
            keyword_in(keyword, ResidueLower)

\* C22 amended: for the crop name "corn" the result is never of grain_straws;
\* it is Corn Straw of corn_related unless the residue type holds a residue
\* keyword of husk_types or coffee_related, and then it is of that group.
C22_CornPrecedenceUnlessResidue ==
    (ret.kind = "similar" /\ IsCorn) =>
        /\ ret.value.found
        /\ ret.value.group # "grain_straws"
        /\ IF EarlierResidue THEN ret.value.group \in {"husk_types", "coffee_related"}
           ELSE ret.value = CornRelated

\* "Corn" with the residue "stover", a residue keyword of grain_straws too
C22_Witness ==
    /\ ret.kind = "similar"
    /\ ret.crop_name = <<"Corn">>
    /\ ret.residue_type = Str(<<"stover">>)
    /\ ret.value = CornRelated

\* the stated condition for a group to be selected
CropMatch(g) ==
    \E keyword \in SIMILAR_FEEDSTOCK_GROUPS[g].keywords :
        CropLower = <<keyword>> \/ keyword \in words(CropLower)

ResidueMatch(g) ==
    \E keyword \in SIMILAR_FEEDSTOCK_GROUPS[g].residue_keywords :
        keyword_in(keyword, ResidueLower)

Satisfies(g) ==
    CropMatch(g) \/ (g \in {"husk_types", "coffee_related"} /\ ResidueMatch(g))

SelectedWhenSatisfied ==
    /\ ret.value.found <=> \E g \in Range(GROUP_NAMES) : Satisfies(g)
    /\ ret.value.found => Satisfies(ret.value.group)

\* C23: a group is selected exactly when its crop match is true or it is
\* husk_types or coffee_related and one of its residue keywords is a
\* substring of the lowercased residue type; the result is null exactly when
\* no group satisfies this.
C23_SelectionRule == ret.kind = "similar" => SelectedWhenSatisfied

\* C23 amended: the same, for a crop name that is not empty; for an empty
\* crop name the result is null whatever the residue type.
C23_SelectionRuleNonEmpty ==
    ret.kind = "similar" =>
        IF ret.crop_name = <<>> THEN ret.value = NotFound ELSE SelectedWhenSatisfied

\* "banana" with "stover" matches no crop keyword and only residue keywords
\* of groups that are not selected on residue: null; with "Husk": husk_types
C23_Witness ==
    /\ ret.kind = "similar"
    /\ ret.crop_name = <<"banana">>
    /\ \/ ret.residue_type = Str(<<"stover">>) /\ ret.value = NotFound
       \/ ret.residue_type = Str(<<"Husk">>) /\ ret.value.found
          /\ ret.value.group = "husk_types"

\* ==== row independence of recommend_biochar

\* the batches a caller can pass with the column names of the current one
OtherBatches ==
    {[columns |-> hex_df.columns, rows |-> rows] :
        rows \in SeqsUpTo({[c \in Range(hex_df.columns) |-> s[c]] : s \in Samples},
                          MaxBatch)}

\* row i of the batch other receives, from a call with the same datasets, the
\* four recommendation columns row i of the current batch received
SameRecommendation(other, i) ==
    LET r == recommend_biochar(other, primary_df, fallback_df).ret
    IN  /\ r.kind = "table"
        /\ \A c \in RecommendationColumns :
               r.rows[i][c] = ret.rows[i][c]

\* C24: for two batches with the same column names and the same datasets, a
\* row that has the same SOC, pH, moisture and temperature in both receives
\* the same four recommendation columns in both calls.
C24_RowIndependence ==
    Normal =>
        \A other \in OtherBatches :
            \A i \in 1..Len(ret.rows) :
                (i <= Len(other.rows) /\ other.rows[i] = hex_df.rows[i])
                    => SameRecommendation(other, i)

\* ==== the score of a primary record

\* the challenge column of a label is true in at least one primary row of
\* the Type
Documented(label, type) ==
    \E i \in AllRows :
        /\ primary_df.rows[i]["Type"] = type
        /\ col_name(label) \in primary_df.columns
        /\ primary_df.rows[i][col_name(label)] = <<1>>

\* the number of challenges of the list that are documented for the Type
DocumentedCount(chs, type) ==
    Cardinality({k \in 1..Len(chs) : Documented(chs[k], type)})

\* C25: the score of a primary record is the number of challenges of the
\* sample's challenge set that are documented for the record's Type (the
\* challenge column is true in at least one primary row of that Type), so two
\* primary rows sharing a Type receive the same score.
C25_ScorePerType ==
    \A m \in Matches :
        HasType(primary_df) =>
            \A i \in AllRows :
                /\ m.sc[i] = DocumentedCount(m.chs, primary_df.rows[i]["Type"])
                /\ \A j \in AllRows :
                       primary_df.rows[i]["Type"] = primary_df.rows[j]["Type"]
                           => m.sc[i] = m.sc[j]

\* ==== the scalar matcher and the per-row matcher

\* the same challenge list and datasets given to the other matcher
Counterpart(m) ==
    IF m.by = "find_matching_feedstocks"
    THEN row_results(<<m.chs>>, primary_df, fallback_df)[1]
    ELSE find_matching_feedstocks(m.chs, primary_df, fallback_df)

\* C28: find_matching_feedstocks and the matching logic of recommend_biochar
\* produce, for every challenge list and every pair of datasets, the same
\* feedstock, data_source and data_quality.
C28_MatchersEquivalent ==
    \A m \in Matches :
        LET other == Counterpart(m)
        IN  /\ other.kind = "tuple"
            /\ other.feedstock = m.res.feedstock
            /\ other.data_source = m.res.data_source
            /\ other.data_quality = m.res.data_quality

\* ==== the allowlist and the score

\* the recommendation names a row of the primary dataset
FromPrimary(m) == m.res.reason[1] = "Addresses "

\* C29: whenever a primary row of an allowlist Type has a positive score, the
\* recommended feedstock is an allowlist Type, even when a row outside the
\* allowlist scores strictly higher; a Type outside the allowlist is
\* recommended from the primary dataset only when every allowlist row scores
\* zero or there is no allowlist row.
C29_AllowlistDominates ==
    \A m \in Matches :
        (Len(m.chs) > 0 /\ HasType(primary_df)) =>
            /\ (\E i \in MainRows : m.sc[i] > 0)
                   => (FromPrimary(m) /\ m.res.feedstock \in Main)
            /\ (FromPrimary(m) /\ m.res.feedstock \notin Main)
                   => \A i \in MainRows : m.sc[i] = 0

\* recommend_biochar recommends an allowlist row scoring 1 over an earlier
\* row outside the allowlist scoring 2
C29_Witness ==
    /\ HasType(primary_df)
    /\ len(primary_df) = 2
    /\ \E m \in Matches :
           /\ m.by = "recommend_biochar"
           /\ 1 \notin MainRows /\ 2 \in MainRows
           /\ m.sc[1] = 2 /\ m.sc[2] = 1
           /\ m.res.feedstock = primary_df.rows[2]["Type"]

\* ==== the caller's table

\* C30: recommend_biochar leaves the caller's table unchanged on every return
\* path: after the call it has the same columns and the same cell values as
\* before, also when both datasets are absent and when the SOC or pH column
\* is missing.
C30_InputUnchanged == [][RecommendBiochar => hex_df' = hex_df]_vars

\* ==== get_feedstock_properties and get_feedstock_for_crop
\* A Type is a sequence of words and whitespace chunks, as a crop name is; a
\* Final Temperature cell is <<degrees>> or NaN.

\* temperature=None
NoTemperature == NaN

NoRow == 0

abs(n) == IF n < 0 THEN 0 - n ELSE n

\* df['Type'].str.strip().str.lower() == name.lower().strip(), as the set of
\* row positions
type_matches(df, name) ==
    {i \in 1..len(df) :
        lower_words(strip(df.rows[i]["Type"])) = strip(lower_words(name))}

\* temp_diff.idxmin(): the first row nearest to the temperature, absent
\* cells skipped
idxmin(df, idx, temperature) ==
    LET known == {i \in idx : notna(df.rows[i]["Final Temperature"])}
        temp_diff(i) == abs(df.rows[i]["Final Temperature"][1] - temperature[1])
    IN  CHOOSE i \in known :
            \A j \in known :
                temp_diff(i) < temp_diff(j) \/ (temp_diff(i) = temp_diff(j) /\ i <= j)

\* _find_in_dataset(df, name): the position of the row returned, NoRow for None
find_in_dataset(df, name, temperature) ==
    IF df.isNone \/ "Type" \notin df.columns THEN NoRow
    ELSE LET found == type_matches(df, name)
         IN  IF found = {} THEN NoRow
             ELSE IF /\ temperature # NoTemperature
                     /\ "Final Temperature" \in df.columns
                     /\ \E i \in found : notna(df.rows[i]["Final Temperature"])
             THEN idxmin(df, found, temperature)
             ELSE CHOOSE i \in found : \A j \in found : i <= j

NoProperties == [kind |-> "null"]

\* _extract_feedstock_dict(row, source): the Type and the temperature of the
\* row stand for its properties; an absent 'temperature' key is NaN
extract_feedstock_dict(row, source) ==
    [kind |-> "dict", source |-> source, feedstock |-> row["Type"],
     temperature |-> IF "Final Temperature" \in DOMAIN row
                     THEN row["Final Temperature"] ELSE NaN]

\* get_feedstock_properties. In
\*   row = _find_in_dataset(primary_df, ...) or _find_in_dataset(fallback_df, ...)
\* the left operand is tested for truth: None is false and the right operand
\* is the value; a Series has no truth value and bool() of it raises ValueError.
get_feedstock_properties(feedstock_name, primary, fallback, temperature) ==
    IF find_in_dataset(primary, feedstock_name, temperature) # NoRow
    THEN Raise("ValueError")
    ELSE LET row == find_in_dataset(fallback, feedstock_name, temperature)
         IN  IF row = NoRow THEN NoProperties
             ELSE IF ~primary.isNone /\ "Type" \notin primary.columns
             THEN Raise("KeyError")
             ELSE extract_feedstock_dict(
                      fallback.rows[row],
                      IF /\ ~primary.isNone
                         /\ \E i \in 1..len(primary) :
                                lower_words(primary.rows[i]["Type"])
                                    = lower_words(feedstock_name)
                      THEN "primary" ELSE "fallback")

\* f"{crop_name} {residue_type}" if residue_type else crop_name
exact_name(crop_name, residue_type) ==
    IF residue_type # Absent /\ residue_type # Str(<<>>)
    THEN crop_name \o <<" ">> \o residue_type.str
    ELSE crop_name

\* the rows of one dataset equal to the exact name
exact_match(df, name) ==
    IF ~df.isNone /\ "Type" \in df.columns THEN type_matches(df, name) ELSE {}

first(idx) == CHOOSE i \in idx : \A j \in idx : i <= j

with_match(props, match_type, similar_group) ==
    [kind |-> "dict", source |-> props.source, feedstock |-> props.feedstock,
     temperature |-> props.temperature, match_type |-> match_type,
     similar_group |-> similar_group]

get_feedstock_for_crop(crop_name, residue_type, primary, fallback) ==
    LET name == exact_name(crop_name, residue_type)
    IN  IF exact_match(primary, name) # {}
        THEN with_match(extract_feedstock_dict(
                            primary.rows[first(exact_match(primary, name))], "primary"),
                        "exact", None)
        ELSE IF exact_match(fallback, name) # {}
        THEN with_match(extract_feedstock_dict(
                            fallback.rows[first(exact_match(fallback, name))], "fallback"),
                        "exact", None)
        ELSE LET similar_match == find_similar_feedstock(crop_name, residue_type)
             IN  IF ~similar_match.found THEN NoProperties
                 ELSE LET feedstock_props ==
                              get_feedstock_properties(similar_match.feedstock,
                                                       primary, fallback, NoTemperature)
                      IN  IF feedstock_props.kind = "raise" THEN feedstock_props
                          ELSE IF feedstock_props = NoProperties THEN NoProperties
                          ELSE with_match(feedstock_props, "similar", similar_match.group)

\* ------------------------------------------------- inputs of the lookups
LookupRow(type, temperature) ==
    [c \in {"Type", "Final Temperature"} |-> IF c = "Type" THEN type ELSE temperature]

\* reference records: Rice Husk at two temperatures, written two ways; Corn
\* Straw without a temperature; Wheat Straw
LookupRows ==
    {LookupRow(<<"Rice", " ", "Husk">>, <<400>>),
     LookupRow(<<"rice", " ", "husk", " ">>, <<600>>),
     LookupRow(<<"Corn", " ", "Straw">>, NaN),
     LookupRow(<<"Wheat", " ", "Straw">>, <<500>>)}

\* datasets of up to MaxRows records, a dataset without the Type column, one
\* without the Final Temperature column, and no dataset
LookupDatasets ==
    {DataFrame({"Type", "Final Temperature"}, r) : r \in SeqsUpTo(LookupRows, MaxRows)}
    \cup {NoneDF,
          DataFrame({"Final Temperature"}, <<[c \in {"Final Temperature"} |-> <<400>>]>>),
          DataFrame({"Type"}, <<[c \in {"Type"} |-> <<"Corn", " ", "Straw">>]>>)}

FeedstockNames ==
    {<<"Rice", " ", "Husk">>, <<" ", "rice", " ", "Husk">>, <<"Corn", " ", "Straw">>,
     <<"Bamboo">>}

Temperatures == {NoTemperature, <<450>>, <<600>>}

LookupCrops ==
    {<<<<"rice">>, Str(<<"Husk">>)>>, <<<<"Wheat">>, Str(<<"Straw">>)>>,
     <<<<"corn">>, Absent>>, <<<<"Corn">>, Str(<<"stover">>)>>,
     <<<<"wheat">>, Absent>>, <<<<"banana">>, Str(<<>>)>>}

InitLookup ==
    /\ primary_df \in LookupDatasets
    /\ fallback_df \in LookupDatasets
    /\ hex_df = [columns |-> <<>>, rows |-> <<>>]
    /\ challenges = <<>>
    /\ ret = NoCall
    /\ files = NoFiles

GetFeedstockProperties(feedstock_name, temperature) ==
    /\ ret = NoCall
    /\ ret' = [kind |-> "properties", feedstock_name |-> feedstock_name,
               temperature |-> temperature,
               value |-> get_feedstock_properties(feedstock_name, primary_df,
                                                  fallback_df, temperature)]
    /\ UNCHANGED <<primary_df, fallback_df, hex_df, challenges, files>>

GetFeedstockForCrop(crop_name, residue_type) ==
    /\ ret = NoCall
    /\ ret' = [kind |-> "crop", crop_name |-> crop_name, residue_type |-> residue_type,
               value |-> get_feedstock_for_crop(crop_name, residue_type,
                                                primary_df, fallback_df)]
    /\ UNCHANGED <<primary_df, fallback_df, hex_df, challenges, files>>

NextLookup ==
    \/ \E feedstock_name \in FeedstockNames, temperature \in Temperatures :
           GetFeedstockProperties(feedstock_name, temperature)
    \/ \E call \in LookupCrops : GetFeedstockForCrop(call[1], call[2])

SpecLookup == InitLookup /\ [][NextLookup]_vars

\* ------------------------------------------------------------- the claims
\* the dataset has a record whose Type is the name, letter case and
\* surrounding whitespace aside
Has(df, name) ==
    /\ ~df.isNone
    /\ "Type" \in df.columns
    /\ \E i \in 1..len(df) : lower_words(strip(df.rows[i]["Type"])) = strip(lower_words(name))

\* the value holds the properties of a record of the dataset with that name
RecordOf(value, df, name, source) ==
    /\ value.kind = "dict"
    /\ value.source = source
    /\ \E i \in 1..len(df) :
           /\ lower_words(strip(df.rows[i]["Type"])) = strip(lower_words(name))
           /\ value.feedstock = df.rows[i]["Type"]
           /\ "Final Temperature" \in df.columns
                  => value.temperature = df.rows[i]["Final Temperature"]

\* C26: get_feedstock_properties looks the case-insensitive, trimmed name up
\* in the primary dataset and returns that record's properties with source
\* 'primary'; otherwise in the fallback dataset, with source 'fallback';
\* otherwise it returns null; it raises in none of the three cases.
C26_HierarchicalLookup ==
    ret.kind = "properties" =>
        IF Has(primary_df, ret.feedstock_name)
        THEN RecordOf(ret.value, primary_df, ret.feedstock_name, "primary")
        ELSE IF Has(fallback_df, ret.feedstock_name)
        THEN RecordOf(ret.value, fallback_df, ret.feedstock_name, "fallback")
        ELSE ret.value = NoProperties

ExactName == exact_name(ret.crop_name, ret.residue_type)

Similar == find_similar_feedstock(ret.crop_name, ret.residue_type)

\* C27: get_feedstock_for_crop returns the record whose Type equals
\* "<crop> <residue>" (the crop alone without residue) in the primary dataset,
\* else in the fallback dataset, with match_type 'exact'; otherwise the record
\* of the feedstock find_similar_feedstock names, when a dataset has it, with
\* match_type 'similar' and the group name; otherwise null.
C27_ExactSimilarNone ==
    ret.kind = "crop" =>
        IF Has(primary_df, ExactName)
        THEN RecordOf(ret.value, primary_df, ExactName, "primary")
             /\ ret.value.match_type = "exact"
        ELSE IF Has(fallback_df, ExactName)
        THEN RecordOf(ret.value, fallback_df, ExactName, "fallback")
             /\ ret.value.match_type = "exact"
        ELSE IF Similar.found /\ \E df \in {primary_df, fallback_df} : Has(df, Similar.feedstock)
        THEN /\ \/ RecordOf(ret.value, primary_df, Similar.feedstock, "primary")
                \/ RecordOf(ret.value, fallback_df, Similar.feedstock, "fallback")
             /\ ret.value.match_type = "similar"
             /\ ret.value.similar_group = Similar.group
        ELSE ret.value = NoProperties

====
